---- MODULE Spec2Model ----
(***************************************************************************)
(* A model of gulp_mlips: the host service (host.py) that holds one        *)
(* calculator backend behind a FastAPI application served by uvicorn, the  *)
(* backend adapters (backends/base.py, gulp.py, petmad.py, fairchem.py,    *)
(* gfnff.py) and the derivative-file writer write_drv (formats/drv.py).    *)
(*                                                                         *)
(* Spec     the host process: main(), the /calculate and /health handlers  *)
(*          on uvicorn's single event loop, clients that send requests and *)
(*          give up on them, shutdown.                                     *)
(* DrvSpec  write_drv applied to inputs drawn from bounded sets.           *)
(* ClientSpec  one run of the client (client.py): main(),                  *)
(*          calculate_via_host, write_drv, sys.exit.                       *)
(* AdapterSpec  one backend adapter: constructed, then load(), calculate(), *)
(*          the accessors and cleanup() called in any order.               *)
(***************************************************************************)
EXTENDS Integers, Sequences, FiniteSets, TLC

(* ---------------------------------------------------------------- bounds *)

\* POST /calculate requests sent to one host process.
MaxReq == 2
\* Atoms of a structure handed to write_drv.
MaxAtoms == 2
\* Method calls made on one backend adapter.
MaxCalls == 5

VARIABLES
    \* ---- the host process (host.py)
    phase,      \* "init" | "serving" | "exited" | "stopped" | "ended"
    entry,      \* how the app came to be served: "none" | "main" | "asgi"
    backend,    \* the module global `backend`: NoBackend or an instance
    exitCode,   \* the code main() passed to sys.exit, or -1
    reqs,       \* the /calculate requests, in arrival order
    loop,       \* the request whose handler holds the event loop, or 0
    calc,       \* the one shared ASE calculator: what it last computed
    hreq,       \* the /health request of the polling client, and its answer
    cleanups,   \* calls of backend.cleanup() made by the shutdown handler
    \* ---- write_drv (formats/drv.py)
    drvIn,      \* the arguments of the call
    drvFile,    \* the file at `filepath`
    drvOut,     \* how the call ended
    \* ---- one backend adapter driven by its methods (backends/*.py)
    ad,         \* the adapter object: its class and attributes
    adEnv,      \* what exists outside it: temporary directories, objects made
    adOut,      \* the last method call and how it ended
    \* ---- the client process (client.py)
    cl          \* where it is, its input, the answer it got, what it returns

hostVars == <<phase, entry, backend, exitCode, reqs, loop, calc, hreq, cleanups>>
drvVars == <<drvIn, drvFile, drvOut>>
adVars == <<ad, adEnv, adOut>>
vars == <<phase, entry, backend, exitCode, reqs, loop, calc, hreq, cleanups,
          drvIn, drvFile, drvOut, ad, adEnv, adOut, cl>>

(* ------------------------------------------------------- host: the data *)

Null == "null"
NoBackend == [cls |-> "None", stressKw |-> FALSE]

\* --backend choices of main(), which are the keys of backend_map.
BackendNames == {"petmad", "fairchem", "gfnff", "xtb", "gulp"}

\* A lookup that falls back to PET-MAD for a name it does not know.
BackendMapDefault(name) ==
    CASE name = "fairchem" -> "FairChemBackend"
      [] name = "gfnff" -> "GFNFFBackend"
      [] name = "xtb" -> "GFNFFBackend"
      [] name = "gulp" -> "GULPBackend"
      [] OTHER -> "PETMADBackend"

BackendMap(name) ==
    CASE name = "petmad" -> "PETMADBackend"
      [] name = "fairchem" -> "FairChemBackend"
      [] name = "gfnff" -> "GFNFFBackend"
      [] name = "xtb" -> "GFNFFBackend"
      [] name = "gulp" -> "GULPBackend"
      [] OTHER -> Null

\* Structures a request can carry: 1 is a molecule, 2 has a cell (periodic).
Structs == {1, 2}
Periodic(s) == s = 2

\* A request body: "ok" is a well-formed structure with the properties asked
\* for (the default list, a list with "stress", a list without "energy"),
\* "mismatch" has one symbol more than it has positions, "schema" is not a
\* CalculationRequest at all.
DefaultProps == {"energy", "forces"}
Payloads ==
    { [kind |-> "ok", struct |-> 1, props |-> DefaultProps],
      [kind |-> "ok", struct |-> 1, props |-> {"energy", "forces", "stress"}],
      [kind |-> "ok", struct |-> 2, props |-> {"energy", "forces", "stress"}],
      [kind |-> "ok", struct |-> 1, props |-> {"forces"}],
      [kind |-> "mismatch", struct |-> 1, props |-> DefaultProps],
      [kind |-> "schema", struct |-> 1, props |-> DefaultProps] }

\* Energies, forces and stresses are values <<tag, structure>>; None and a key
\* missing from a dict are values of their own.
None == <<"None", 0>>
Absent == <<"absent", 0>>

NoResp == [status |-> 0, energy |-> None, forces |-> None, stress |-> None,
           detail |-> Null]

\* What the calculator computes for a structure.
Results(s) == [atoms |-> s, energy |-> <<"E", s>>, forces |-> <<"F", s>>,
               stress |-> <<"S", s>>]
NoResults == [atoms |-> 0, energy |-> None, forces |-> None, stress |-> None]
Zeros6 == <<"S", 0>>

(* ------------------------------------------------ host: loading, main() *)

\* What main() puts into **config that the model needs: whether --model and
\* --task name a known FairChem model and task, and whether --keywords holds
\* the word "stress".
Configs == [modelTaskKnown : BOOLEAN, stressKw : BOOLEAN]

\* BackendClass(**config). CalculatorBackend.__init__ assigns self.calculator,
\* which GFNFFBackend declares as a property without a setter; FairChemBackend
\* checks its model and task.
Construct(cls, cfg) ==
    CASE cls = "GFNFFBackend" -> [ok |-> FALSE, err |-> "AttributeError"]
      [] cls = "FairChemBackend" /\ ~cfg.modelTaskKnown ->
            [ok |-> FALSE, err |-> "ValueError"]
      [] OTHER -> [ok |-> TRUE, err |-> Null]

\* load_backend(backend_name, **config); loadOk is whether instance.load()
\* returns (the package is installed, the model can be fetched, gulp is on PATH).
LoadBackend(name, cfg, loadOk) ==
    IF BackendMap(name) = Null
    THEN [ok |-> FALSE, err |-> "ValueError", inst |-> NoBackend]
    ELSE LET c == Construct(BackendMap(name), cfg) IN
         IF ~c.ok THEN [ok |-> FALSE, err |-> c.err, inst |-> NoBackend]
         ELSE IF ~loadOk THEN [ok |-> FALSE, err |-> "LoadError", inst |-> NoBackend]
         ELSE [ok |-> TRUE, err |-> Null,
               inst |-> [cls |-> BackendMap(name),
                         stressKw |-> (name = "gulp" /\ cfg.stressKw)]]

\* main() that logs a failed load and goes on to uvicorn.run.
MainAfterLoadNoExit(r) ==
    [phase |-> "serving", backend |-> r.inst, exitCode |-> -1]

\* main() after load_backend returned or raised: the global is set and
\* uvicorn.run is reached, or sys.exit(1).
MainAfterLoad(r) ==
    IF r.ok THEN [phase |-> "serving", backend |-> r.inst, exitCode |-> -1]
    ELSE [phase |-> "exited", backend |-> NoBackend, exitCode |-> 1]

Main ==
    /\ phase = "init"
    /\ \E name \in BackendNames, cfg \in Configs, loadOk \in BOOLEAN :
         LET m == MainAfterLoad(LoadBackend(name, cfg, loadOk)) IN
         /\ phase' = m.phase
         /\ backend' = m.backend
         /\ exitCode' = m.exitCode
    /\ entry' = "main"
    /\ UNCHANGED <<reqs, loop, calc, hreq, cleanups>>
    /\ UNCHANGED drvVars
    /\ UNCHANGED adVars
    /\ UNCHANGED cl

\* The module-level `app` served by an ASGI server without main(): the global
\* `backend` keeps its initial None.
ServeApp ==
    /\ phase = "init"
    /\ phase' = "serving"
    /\ entry' = "asgi"
    /\ UNCHANGED <<backend, exitCode, reqs, loop, calc, hreq, cleanups>>
    /\ UNCHANGED drvVars
    /\ UNCHANGED adVars
    /\ UNCHANGED cl

(* ------------------------------------------- host: requests and handlers *)

InCalc(r) == r.st \in {"calc", "computed"}
Settled(r) == r.st \in {"answered", "dropped"}

\* Handlers declared with a plain `def`, which FastAPI runs in worker threads:
\* nothing waits for a running handler.
LoopIdleThreaded == TRUE

\* Both handlers are `async def` and never await: once one runs, uvicorn's
\* event loop runs nothing else until it returns.
LoopIdle == loop = 0

SetReq(i, st, resp) == [reqs EXCEPT ![i].st = st, ![i].resp = resp]

Error(status, detail) == [NoResp EXCEPT !.status = status, !.detail = detail]

\* A client sends POST /calculate.
Arrive ==
    /\ phase = "serving"
    /\ Len(reqs) < MaxReq
    /\ \E p \in Payloads :
         reqs' = Append(reqs, [payload |-> p, st |-> "pending",
                               abandoned |-> FALSE, resp |-> NoResp])
    /\ UNCHANGED <<phase, entry, backend, exitCode, loop, calc, hreq, cleanups>>
    /\ UNCHANGED drvVars
    /\ UNCHANGED adVars
    /\ UNCHANGED cl

\* The client's timeout passes before the response: it gives the request up.
Abandon ==
    /\ \E i \in 1..Len(reqs) :
         /\ ~Settled(reqs[i])
         /\ ~reqs[i].abandoned
         /\ reqs' = [reqs EXCEPT ![i].abandoned = TRUE]
    /\ UNCHANGED <<phase, entry, backend, exitCode, loop, calc, hreq, cleanups>>
    /\ UNCHANGED drvVars
    /\ UNCHANGED adVars
    /\ UNCHANGED cl

\* A handler that tells the failures apart by status: 503 for no backend, 400
\* for a structure that cannot be built.
BeforeCalculateByKind(p, b) ==
    CASE p.kind = "schema" -> Error(422, "validation error")
      [] p.kind # "schema" /\ b = NoBackend -> Error(503, "Backend not loaded")
      [] p.kind = "mismatch" /\ b # NoBackend -> Error(400, "ValueError")
      [] OTHER -> NoResp

\* A handler that hands the lists to the backend as they came.
BeforeCalculateUnchecked(p, b) ==
    CASE p.kind = "schema" -> Error(422, "validation error")
      [] p.kind # "schema" /\ b = NoBackend -> Error(500, "Backend not loaded")
      [] OTHER -> NoResp

\* The handler up to the call of backend.calculate: request validation, the
\* check of the global, the construction of Atoms. What it answers at once,
\* or NoResp when backend.calculate is entered.
BeforeCalculate(p, b) ==
    CASE p.kind = "schema" -> Error(422, "validation error")
      [] p.kind # "schema" /\ b = NoBackend -> Error(500, "Backend not loaded")
      [] p.kind = "mismatch" /\ b # NoBackend -> Error(500, "ValueError")
      [] OTHER -> NoResp

\* The event loop takes up a request: any pending one.
Dispatch ==
    /\ phase = "serving"
    /\ LoopIdle
    /\ \E i \in 1..Len(reqs) :
         /\ reqs[i].st = "pending"
         /\ LET early == BeforeCalculate(reqs[i].payload, backend) IN
            IF early # NoResp
            THEN reqs' = SetReq(i, "answered", early) /\ loop' = loop
            ELSE reqs' = SetReq(i, "calc", NoResp) /\ loop' = i
    /\ UNCHANGED <<phase, entry, backend, exitCode, calc, hreq, cleanups>>
    /\ UNCHANGED drvVars
    /\ UNCHANGED adVars
    /\ UNCHANGED cl

\* The server finds the client of a pending request gone before the handler
\* was called: the handler never runs.
Drop ==
    /\ phase = "serving"
    /\ LoopIdle
    /\ \E i \in 1..Len(reqs) :
         /\ reqs[i].st = "pending"
         /\ reqs[i].abandoned
         /\ reqs' = SetReq(i, "dropped", NoResp)
    /\ UNCHANGED <<phase, entry, backend, exitCode, loop, calc, hreq, cleanups>>
    /\ UNCHANGED drvVars
    /\ UNCHANGED adVars
    /\ UNCHANGED cl

\* A calculator that keeps the results it has and does not compute again for
\* new atoms.
ComputeStale ==
    /\ \E i \in 1..Len(reqs) :
         /\ reqs[i].st = "calc"
         /\ \/ /\ calc' = IF calc = NoResults THEN Results(reqs[i].payload.struct)
                          ELSE calc
               /\ reqs' = SetReq(i, "computed", NoResp)
               /\ loop' = loop
            \/ /\ calc' = calc
               /\ reqs' = SetReq(i, "answered", Error(500, "ComputeError"))
               /\ loop' = 0
    /\ UNCHANGED <<phase, entry, backend, exitCode, hreq, cleanups>>
    /\ UNCHANGED drvVars
    /\ UNCHANGED adVars
    /\ UNCHANGED cl

\* backend.calculate: the calculator, attached to the request's atoms,
\* computes for them and keeps the results; or it raises.
Compute ==
    /\ \E i \in 1..Len(reqs) :
         /\ reqs[i].st = "calc"
         /\ \/ /\ calc' = Results(reqs[i].payload.struct)
               /\ reqs' = SetReq(i, "computed", NoResp)
               /\ loop' = loop
            \/ /\ calc' = calc
               /\ reqs' = SetReq(i, "answered", Error(500, "ComputeError"))
               /\ loop' = 0
    /\ UNCHANGED <<phase, entry, backend, exitCode, hreq, cleanups>>
    /\ UNCHANGED drvVars
    /\ UNCHANGED adVars
    /\ UNCHANGED cl

\* The `results` dict backend.calculate returns, read from the calculator:
\* CalculatorBackend.calculate, and GULPBackend.calculate for its stress.
CalculateResults(b, p, c) ==
    [energy |-> IF "energy" \in p.props THEN c.energy ELSE Absent,
     forces |-> IF "forces" \in p.props THEN c.forces ELSE Absent,
     stress |-> IF "stress" \notin p.props THEN Absent
                ELSE IF b.cls = "GULPBackend"
                     THEN IF Periodic(p.struct) /\ b.stressKw THEN c.stress ELSE Zeros6
                     ELSE IF Periodic(p.struct) THEN c.stress ELSE None]

\* A handler without the except clause's HTTPException: the failure reaches
\* the caller as a bare 500 with no detail.
FormatResponseBare(res) ==
    IF res.energy = Absent THEN Error(500, Null)
    ELSE [status |-> 200,
          energy |-> res.energy,
          forces |-> IF res.forces = Absent THEN None ELSE res.forces,
          stress |-> IF res.stress \in {Absent, None} THEN None ELSE res.stress,
          detail |-> Null]

\* The handler after backend.calculate: the CalculationResponse, or the 500
\* of the except clause when results["energy"] is missing.
FormatResponse(res) ==
    IF res.energy = Absent THEN Error(500, "KeyError")
    ELSE [status |-> 200,
          energy |-> res.energy,
          forces |-> IF res.forces = Absent THEN None ELSE res.forces,
          stress |-> IF res.stress \in {Absent, None} THEN None ELSE res.stress,
          detail |-> Null]

Respond ==
    /\ \E i \in 1..Len(reqs) :
         /\ reqs[i].st = "computed"
         /\ reqs' = SetReq(i, "answered",
                FormatResponse(CalculateResults(backend, reqs[i].payload, calc)))
    /\ loop' = 0
    /\ UNCHANGED <<phase, entry, backend, exitCode, calc, hreq, cleanups>>
    /\ UNCHANGED drvVars
    /\ UNCHANGED adVars
    /\ UNCHANGED cl

(* ---------------------------------------------- host: health, shutdown *)

GetName(b) == <<"name", b.cls>>
GetVersion(b) == <<"version", b.cls>>

NoHealth == [status |-> Null, backend_loaded |-> FALSE, backend_name |-> None,
             backend_version |-> None]

\* health() that calls the accessors of whatever the global holds.
HealthResponseUnguarded(b) ==
    [status |-> "healthy",
     backend_loaded |-> b # NoBackend,
     backend_name |-> GetName(b),
     backend_version |-> GetVersion(b)]

HealthResponse(b) ==
    [status |-> "healthy",
     backend_loaded |-> b # NoBackend,
     backend_name |-> IF b # NoBackend THEN GetName(b) ELSE None,
     backend_version |-> IF b # NoBackend THEN GetVersion(b) ELSE None]

\* The polling client sends GET /health (again, once the last one is answered).
HealthArrive ==
    /\ phase = "serving"
    /\ hreq.st # "pending"
    /\ hreq' = [st |-> "pending", resp |-> NoHealth]
    /\ UNCHANGED <<phase, entry, backend, exitCode, reqs, loop, calc, cleanups>>
    /\ UNCHANGED drvVars
    /\ UNCHANGED adVars
    /\ UNCHANGED cl

Health ==
    /\ phase = "serving"
    /\ LoopIdle
    /\ hreq.st = "pending"
    /\ hreq' = [st |-> "answered", resp |-> HealthResponse(backend)]
    /\ UNCHANGED <<phase, entry, backend, exitCode, reqs, loop, calc, cleanups>>
    /\ UNCHANGED drvVars
    /\ UNCHANGED adVars
    /\ UNCHANGED cl

\* The server stops: shutdown_event.
Shutdown ==
    /\ phase = "serving"
    /\ LoopIdle
    /\ phase' = "stopped"
    /\ cleanups' = IF backend # NoBackend THEN cleanups + 1 ELSE cleanups
    /\ UNCHANGED <<entry, backend, exitCode, reqs, loop, calc, hreq>>
    /\ UNCHANGED drvVars
    /\ UNCHANGED adVars
    /\ UNCHANGED cl

\* uvicorn.run has returned and main() with it: the interpreter exits. The
\* object held by the global `backend` is finalized; whether its __del__ runs
\* at interpreter exit is not guaranteed. GULPBackend.__del__ calls cleanup().
ProcessEnd ==
    /\ phase = "stopped"
    /\ phase' = "ended"
    /\ \E delRuns \in BOOLEAN :
         cleanups' = IF backend.cls = "GULPBackend" /\ delRuns
                     THEN cleanups + 1 ELSE cleanups
    \* the connections and the calculator's memory go with the process
    /\ reqs' = <<>>
    /\ calc' = NoResults
    /\ hreq' = [st |-> "none", resp |-> NoHealth]
    /\ UNCHANGED <<entry, backend, exitCode, loop>>
    /\ UNCHANGED drvVars
    /\ UNCHANGED adVars
    /\ UNCHANGED cl

(* ---------------------------------------------------- write_drv: numbers *)

\* A float is sign * mag * 10^-exp: the sign is kept apart because -0.0 and
\* 0.0 are written differently.
Num(s, m, e) == [sign |-> s, mag |-> m, exp |-> e]
Negate(x) == [x EXCEPT !.sign = -x.sign]
\* x * v for a volume v >= 0 given as a whole number.
Times(x, v) == [x EXCEPT !.mag = x.mag * v]

RECURSIVE Pow10(_)
Pow10(k) == IF k = 0 THEN 1 ELSE 10 * Pow10(k - 1)

\* n / d rounded to the nearest whole number, a tie to the even one.
RoundHalfEven(n, d) ==
    LET q == n \div d
        r == n % d
    IN IF 2 * r > d \/ (2 * r = d /\ q % 2 = 1) THEN q + 1 ELSE q

\* The text of format spec `.{digits}f`: the sign of the float and its
\* magnitude rounded to `digits` fractional digits, in units of 10^-digits.
Fixed(x, digits) ==
    [sign |-> x.sign,
     digits |-> digits,
     units |-> IF x.exp >= digits
               THEN RoundHalfEven(x.mag, Pow10(x.exp - digits))
               ELSE x.mag * Pow10(digits - x.exp)]

(* ------------------------------------------------- write_drv: the inputs *)

\* Force rows and positions, in units of 10^-9: values that end on the 9th
\* digit (rounded when written with 8), zero and negative values.
ForceRows ==
    { <<Num(1, 15, 9), Num(-1, 25, 9), Num(1, 0, 9)>>,
      <<Num(-1, 1234567894, 9), Num(1, 40, 9), Num(-1, 0, 9)>>,
      <<Num(1, 500000000, 9), Num(1, 6, 9), Num(-1, 35, 9)>> }

\* The atoms: atomic number and position.
AtomKinds ==
    { [Z |-> 1, pos |-> <<Num(1, 0, 9), Num(1, 750000000, 9), Num(-1, 5, 9)>>],
      [Z |-> 8, pos |-> <<Num(-1, 1500000004, 9), Num(1, 0, 9), Num(1, 15, 9)>>] }

Energies == { Num(-1, 1234567891, 11), Num(1, 0, 11) }

\* forces as an array: its shape and its rows. (n, 3) and (n, 2) arrays of up
\* to MaxAtoms + 1 rows, a flat array of 3 numbers, and the 0-d array that
\* numpy makes of None.
Prefix(row, c) == SubSeq(row, 1, c)
ForcesArrays ==
    UNION { { [shape |-> <<r, c>>, rows |-> [i \in 1..r |-> Prefix(f[i], c)]] :
                f \in [1..r -> ForceRows] } : r \in 0..(MaxAtoms + 1), c \in {3} }
    \cup { [shape |-> <<r, 2>>,
            rows |-> [i \in 1..r |-> Prefix(<<Num(1, 15, 9), Num(-1, 25, 9)>>, 2)]] :
              r \in 1..MaxAtoms }
    \cup { [shape |-> <<3>>, rows |-> <<>>], [shape |-> <<>>, rows |-> <<>>] }

\* Stress in Voigt order [xx, yy, zz, yz, xz, xy], in units of 10^-9.
VoigtVectors ==
    { <<Num(1, 1000000, 9), Num(1, 2000000, 9), Num(1, 3000000, 9),
        Num(1, 4000000, 9), Num(1, 5000000, 9), Num(1, 6000000, 9)>>,
      <<Num(-1, 15, 9), Num(1, 25, 9), Num(1, 0, 9),
        Num(-1, 4, 9), Num(1, 55, 9), Num(-1, 65, 9)>> }

\* The symmetric 3x3 matrix of a Voigt vector.
FromVoigt(s) == << <<s[1], s[6], s[5]>>, <<s[6], s[2], s[4]>>, <<s[5], s[4], s[3]>> >>

\* A 3x3 matrix that is not symmetric.
Skewed == << <<Num(1, 10, 9), Num(1, 20, 9), Num(1, 30, 9)>>,
             <<Num(1, 40, 9), Num(1, 50, 9), Num(1, 60, 9)>>,
             <<Num(1, 70, 9), Num(1, 80, 9), Num(1, 90, 9)>> >>

\* The stress argument: None, a 6-vector, a 3x3 matrix, a 3-vector.
Stresses ==
    { [kind |-> "None", len |-> 0, v |-> <<>>] }
    \cup { [kind |-> "voigt", len |-> 6, v |-> s] : s \in VoigtVectors }
    \cup { [kind |-> "matrix", len |-> 3, v |-> FromVoigt(s)] : s \in VoigtVectors }
    \cup { [kind |-> "matrix", len |-> 3, v |-> Skewed] }
    \cup { [kind |-> "vector3", len |-> 3,
            v |-> <<Num(1, 10, 9), Num(1, 20, 9), Num(1, 30, 9)>>] }

\* atoms.get_volume(): the volume of the cell, or -1 for a cell of fewer than
\* three vectors, for which get_volume raises ValueError.
Volumes == {-1, 2, 64}

\* The file at filepath before the call: Missing, or lines of an earlier run.
Missing == <<[tag |-> "missing", idx |-> 0, z |-> 0, vals |-> <<>>]>>
OldFile == <<[tag |-> "old", idx |-> 0, z |-> 0, vals |-> <<>>]>>

DrvInputs ==
    [atoms : UNION { [1..n -> AtomKinds] : n \in 1..MaxAtoms },
     energy : Energies,
     forces : ForcesArrays,
     stress : Stresses,
     volume : Volumes,
     before : {Missing, OldFile}]

(* ------------------------------------------------ write_drv: the function *)

Line(tag, idx, z, vals) == [tag |-> tag, idx |-> idx, z |-> z, vals |-> vals]

\* A check that lets the 0-d array through.
ShapeMismatchUnlessScalar(forces, natoms) ==
    forces.shape # <<>> /\ forces.shape # <<natoms, 3>>

\* A check of the number of rows alone.
ShapeMismatchRows(forces, natoms) == forces.shape = <<>> \/ forces.shape[1] # natoms

\* The check at the head of write_drv: forces.shape != (natoms, 3).
ShapeMismatch(forces, natoms) == forces.shape # <<natoms, 3>>

\* The forces written as they are.
GradientsAsForces(rows) == rows

\* gradients = -forces
Gradients(rows) == [i \in 1..Len(rows) |-> [c \in 1..Len(rows[i]) |-> Negate(rows[i][c])]]

EnergyLine(e) == Line("energy", 0, 0, <<Fixed(e, 10)>>)

CoordinateLines(atoms) ==
    <<Line("coordinates cartesian Angstroms", Len(atoms), 0, <<>>)>>
    \o [i \in 1..Len(atoms) |->
          Line("coordinate", i, atoms[i].Z,
               <<Fixed(atoms[i].pos[1], 8), Fixed(atoms[i].pos[2], 8),
                 Fixed(atoms[i].pos[3], 8)>>)]

\* One written row per row of the array, as long as each has three numbers.
GradientRow(i, grad) ==
    Line("gradient", i, 0, <<Fixed(grad[1], 8), Fixed(grad[2], 8), Fixed(grad[3], 8)>>)

\* The rows the loop over `gradients` writes before it ends or raises: a row
\* of fewer than three numbers raises IndexError, an array without rows to
\* loop over raises TypeError.
GradientLoop(forces) ==
    IF Len(forces.shape) # 2
    THEN [lines |-> <<>>, err |-> IF forces.shape = <<>> THEN "TypeError" ELSE "IndexError"]
    ELSE IF forces.shape[2] < 3 /\ forces.shape[1] > 0
    THEN [lines |-> <<>>, err |-> "IndexError"]
    ELSE [lines |-> [i \in 1..forces.shape[1] |->
                        GradientRow(i, Gradients(forces.rows)[i])],
          err |-> Null]

\* The off-diagonal row of a matrix in reading order: xy, xz, yz.
StrainRowsReadingOrder(stress, volume) ==
    IF stress.len = 6
    THEN LET g == [k \in 1..6 |-> Times(Negate(stress.v[k]), volume)] IN
         [lines |-> <<Line("strain", 0, 0, <<Fixed(g[1], 8), Fixed(g[2], 8), Fixed(g[3], 8)>>),
                      Line("strain", 0, 0, <<Fixed(g[4], 8), Fixed(g[5], 8), Fixed(g[6], 8)>>)>>,
          err |-> Null]
    ELSE IF stress.kind # "matrix"
    THEN [lines |-> <<>>, err |-> "IndexError"]
    ELSE LET g == [r \in 1..3 |-> [c \in 1..3 |-> Times(Negate(stress.v[r][c]), volume)]] IN
         [lines |-> <<Line("strain", 0, 0,
                           <<Fixed(g[1][1], 8), Fixed(g[2][2], 8), Fixed(g[3][3], 8)>>),
                      Line("strain", 0, 0,
                           <<Fixed(g[1][2], 8), Fixed(g[1][3], 8), Fixed(g[2][3], 8)>>)>>,
          err |-> Null]

\* strain_grad = -stress * volume, in the two rows written after the header:
\* a 6-vector as it is, anything else indexed as a 3x3 matrix.
StrainRows(stress, volume) ==
    IF stress.len = 6
    THEN LET g == [k \in 1..6 |-> Times(Negate(stress.v[k]), volume)] IN
         [lines |-> <<Line("strain", 0, 0, <<Fixed(g[1], 8), Fixed(g[2], 8), Fixed(g[3], 8)>>),
                      Line("strain", 0, 0, <<Fixed(g[4], 8), Fixed(g[5], 8), Fixed(g[6], 8)>>)>>,
          err |-> Null]
    ELSE IF stress.kind # "matrix"
    THEN [lines |-> <<>>, err |-> "IndexError"]
    ELSE LET g == [r \in 1..3 |-> [c \in 1..3 |-> Times(Negate(stress.v[r][c]), volume)]] IN
         [lines |-> <<Line("strain", 0, 0,
                           <<Fixed(g[1][1], 8), Fixed(g[2][2], 8), Fixed(g[3][3], 8)>>),
                      Line("strain", 0, 0,
                           <<Fixed(g[2][3], 8), Fixed(g[1][3], 8), Fixed(g[1][2], 8)>>)>>,
          err |-> Null]

\* The strain section written whenever the cell has a volume.
StrainSectionByCell(stress, volume) ==
    IF volume < 0 THEN [lines |-> <<>>, err |-> Null]
    ELSE LET s == StrainRows(stress, volume) IN
         [lines |-> <<Line("gradients strain eV", 0, 0, <<>>)>> \o s.lines, err |-> s.err]

\* The strain section: the header, then the volume (which may raise), then the
\* rows.
StrainSection(stress, volume) ==
    IF stress.kind = "None" THEN [lines |-> <<>>, err |-> Null]
    ELSE IF volume < 0
    THEN [lines |-> <<Line("gradients strain eV", 0, 0, <<>>)>>, err |-> "ValueError"]
    ELSE LET s == StrainRows(stress, volume) IN
         [lines |-> <<Line("gradients strain eV", 0, 0, <<>>)>> \o s.lines, err |-> s.err]

\* The with-block that leaves without forcing the data to the disk.
FileOpsUnsynced(lines, returns) ==
    <<"open">> \o [i \in 1..Len(lines) |-> "write"] \o <<"close">>

\* What the with-block does to the file, in order: open(filepath, 'w'), one
\* f.write for each line, then f.flush() and os.fsync() when the block is not
\* left by an exception, and the close on leaving the block.
FileOps(lines, returns) ==
    <<"open">> \o [i \in 1..Len(lines) |-> "write"]
        \o (IF returns THEN <<"flush", "fsync">> ELSE <<>>) \o <<"close">>

\* write_drv(filepath, atoms, energy, forces, stress): the file it leaves, how
\* it ends (Null: it returns) and what it did to the file, in order.
WriteDrvResult(in) ==
    IF ShapeMismatch(in.forces, Len(in.atoms))
    THEN [file |-> in.before, err |-> "ValueError", msg |-> "Forces shape", ops |-> <<>>]
    ELSE LET head == <<EnergyLine(in.energy)>> \o CoordinateLines(in.atoms)
                        \o <<Line("gradients cartesian eV/Ang", Len(in.atoms), 0, <<>>)>>
             grads == GradientLoop(in.forces)
             strain == StrainSection(in.stress, in.volume)
         IN IF grads.err # Null
            THEN [file |-> head \o grads.lines, err |-> grads.err, msg |-> "gradients",
                  ops |-> FileOps(head \o grads.lines, FALSE)]
            ELSE IF strain.err # Null
            THEN [file |-> head \o grads.lines \o strain.lines, err |-> strain.err,
                  msg |-> "strain",
                  ops |-> FileOps(head \o grads.lines \o strain.lines, FALSE)]
            ELSE [file |-> head \o grads.lines \o strain.lines, err |-> Null,
                  msg |-> Null,
                  ops |-> FileOps(head \o grads.lines \o strain.lines, TRUE)]

NotCalled == [file |-> Missing, err |-> "not called", msg |-> Null, ops |-> <<>>]

WriteDrv ==
    /\ drvOut = NotCalled
    /\ LET r == WriteDrvResult(drvIn) IN
       /\ drvFile' = r.file
       /\ drvOut' = r
    /\ UNCHANGED drvIn
    /\ UNCHANGED hostVars
    /\ UNCHANGED adVars
    /\ UNCHANGED cl

(* -------------------------------------------------- backends: the adapter *)

BackendClasses == {"PETMADBackend", "FairChemBackend", "GFNFFBackend", "GULPBackend"}

\* No adapter object: the constructor has not run, or it raised.
NoAdapter == [cls |-> "None", stressKw |-> FALSE, calculator |-> 0,
              loaded |-> FALSE, tempDir |-> 0]

\* The attributes __init__ sets: calculator = None (0), and for GULPBackend
\* _loaded = False and _temp_dir = None (0). stressKw: `keywords` holds "stress".
NewAdapter(cls, cfg) ==
    [cls |-> cls, stressKw |-> (cls = "GULPBackend" /\ cfg.stressKw),
     calculator |-> 0, loaded |-> FALSE, tempDir |-> 0]

\* CalculatorBackend.is_loaded(), which no class overrides.
IsLoaded(a) == a.calculator # 0

\* How a call ended: the exception (Null: it returned), the dict returned by
\* calculate, the log records of the call, whether a calculator was attached
\* to the atoms, whether a process was launched; for calculate the structure
\* and properties it was given, for load_backend the name and the config.
NoArg == [kind |-> "none", struct |-> 0, props |-> {}]
NoConfig == [modelTaskKnown |-> FALSE, stressKw |-> FALSE]
CallOut(call, err, results, logs, attached) ==
    [call |-> call, err |-> err, results |-> results, logs |-> logs,
     attached |-> attached, arg |-> NoArg, launched |-> FALSE,
     name |-> Null, config |-> NoConfig]
NoDict == [energy |-> Absent, forces |-> Absent, stress |-> Absent]
NoCall == CallOut("none", Null, NoDict, <<>>, FALSE)

\* What can happen inside load(): everything works; the import of the package
\* fails, or gulp is not on PATH, or gulp_drv_calculator.py is not found; the
\* calculator's constructor raises.
LoadOutcomes == {"ok", "unavailable", "constructor raises"}

\* A load() that assigns the calculator before the step that can fail.
LoadBaseAssignFirst(a, env, how) ==
    IF how = "unavailable"
    THEN [ad |-> a, env |-> env, err |-> "ImportError"]
    ELSE [ad |-> [a EXCEPT !.calculator = env.calcs + 1],
          env |-> [env EXCEPT !.calcs = @ + 1],
          err |-> IF how = "constructor raises" THEN "RuntimeError" ELSE Null]

\* load() of PETMADBackend and FairChemBackend: the calculator is constructed
\* and assigned on every call; a failure leaves the attributes as they were.
LoadBase(a, env, how) ==
    IF how = "unavailable"
    THEN [ad |-> a, env |-> env, err |-> "ImportError"]
    ELSE IF how = "constructor raises"
    THEN [ad |-> a, env |-> env, err |-> "RuntimeError"]
    ELSE [ad |-> [a EXCEPT !.calculator = env.calcs + 1],
          env |-> [env EXCEPT !.calcs = @ + 1], err |-> Null]

\* GULPBackend.load(): returns at once when _loaded; otherwise finds gulp and
\* gulp_drv_calculator.py, makes the temporary directory, constructs the
\* calculator in it and sets _loaded.
LoadGulp(a, env, how) ==
    IF a.loaded THEN [ad |-> a, env |-> env, err |-> Null]
    ELSE IF how = "unavailable"
    THEN [ad |-> a, env |-> env, err |-> "RuntimeError"]
    ELSE LET d == env.dirs + 1
             withDir == [env EXCEPT !.dirs = d, !.disk = @ \cup {d}]
         IN IF how = "constructor raises"
            THEN [ad |-> [a EXCEPT !.tempDir = d], env |-> withDir, err |-> "Exception"]
            ELSE [ad |-> [a EXCEPT !.tempDir = d, !.calculator = env.calcs + 1,
                                   !.loaded = TRUE],
                  env |-> [withDir EXCEPT !.calcs = @ + 1], err |-> Null]

LoadCall(a, env, how) ==
    IF a.cls = "GULPBackend" THEN LoadGulp(a, env, how) ELSE LoadBase(a, env, how)

\* A check of GULPBackend by its temporary directory.
CalculateNotLoadedByDir(a) ==
    IF a.cls = "GULPBackend" THEN a.tempDir = 0 ELSE ~IsLoaded(a)

\* The head of calculate(): CalculatorBackend checks is_loaded(), GULPBackend
\* its _loaded.
CalculateNotLoaded(a) ==
    IF a.cls = "GULPBackend" THEN ~a.loaded ELSE ~IsLoaded(a)

\* calculate(atoms, properties). stressFails: atoms.get_stress raises; that
\* is caught by GULPBackend alone, which logs a warning and puts zeros.
CalculateCall(a, p, stressFails) ==
    IF CalculateNotLoaded(a)
    THEN CallOut("calculate", "RuntimeError", NoDict, <<>>, FALSE)
    ELSE LET res == CalculateResults(a, p, Results(p.struct))
             asked == "stress" \in p.props /\ Periodic(p.struct)
                          /\ (a.cls = "GULPBackend" => a.stressKw)
         IN IF stressFails /\ asked
            THEN IF a.cls = "GULPBackend"
                 THEN CallOut("calculate", Null, [res EXCEPT !.stress = Zeros6],
                              <<"WARNING Could not calculate stress">>, TRUE)
                 ELSE CallOut("calculate", "Exception", NoDict, <<>>, TRUE)
            ELSE CallOut("calculate", Null, res, <<>>, TRUE)

\* A cleanup() without the try/except around rmtree: its failure is raised
\* and the attributes are not reset.
CleanupCallUnguarded(a, env, rmOk) ==
    IF a.cls # "GULPBackend" THEN [ad |-> a, env |-> env, err |-> Null]
    ELSE IF a.tempDir # 0 /\ a.tempDir \in env.disk /\ ~rmOk
    THEN [ad |-> a, env |-> env, err |-> "OSError"]
    ELSE [ad |-> [a EXCEPT !.calculator = 0, !.loaded = FALSE, !.tempDir = 0],
          env |-> [env EXCEPT !.disk = @ \ {a.tempDir}], err |-> Null]

\* cleanup(): `pass` in CalculatorBackend; GULPBackend removes its temporary
\* directory (rmOk: rmtree does not raise; its failure is swallowed) and
\* resets calculator, _loaded and _temp_dir.
CleanupCall(a, env, rmOk) ==
    IF a.cls # "GULPBackend" THEN [ad |-> a, env |-> env, err |-> Null]
    ELSE [ad |-> [a EXCEPT !.calculator = 0, !.loaded = FALSE, !.tempDir = 0],
          env |-> IF a.tempDir # 0 /\ a.tempDir \in env.disk /\ rmOk
                  THEN [env EXCEPT !.disk = @ \ {a.tempDir}] ELSE env,
          err |-> Null]

\* __del__: GULPBackend's calls cleanup(); the other classes have none. What
\* is left outside the object.
Teardown(a, env, rmOk) ==
    IF a.cls = "GULPBackend" THEN CleanupCall(a, env, rmOk).env ELSE env

\* get_name() and get_version(): GULPBackend.get_version runs
\* `gulp --version` in a subprocess and swallows every error; the others
\* return an attribute or a constant.
AccessorCall(a, acc) ==
    [CallOut(acc, Null, NoDict, <<>>, FALSE)
        EXCEPT !.launched = (acc = "get_version" /\ a.cls = "GULPBackend")]

\* Names load_backend can be given: the registered ones and one that is not.
LoadableNames == BackendNames \cup {"mace"}

\* load_backend(backend_name, **config) with load() as the adapter does it:
\* the lookup, BackendClass(**config), instance.load(). An instance whose
\* load() raised is dropped, and finalized.
LoadBackendCall(name, cfg, how, rmOk, env) ==
    IF BackendMap(name) = Null
    THEN [ad |-> NoAdapter, env |-> env, err |-> "ValueError"]
    ELSE LET c == Construct(BackendMap(name), cfg)
             made == [env EXCEPT !.constructs = @ + 1]
         IN IF ~c.ok THEN [ad |-> NoAdapter, env |-> made, err |-> c.err]
            ELSE LET r == LoadCall(NewAdapter(BackendMap(name), cfg),
                                   [made EXCEPT !.loads = @ + 1], how)
                 IN IF r.err = Null THEN r
                    ELSE [ad |-> NoAdapter, env |-> Teardown(r.ad, r.env, rmOk),
                          err |-> r.err]

\* The bookkeeping of a call: the count of calls, the call made before it and
\* whether a load() has returned so far.
StepEnv(env, last, loadReturns) ==
    [env EXCEPT !.calls = @ + 1, !.prev = last.call,
                !.loadReturned = @ \/ loadReturns]

\* BackendClass(**config)
AdNew ==
    /\ ad = NoAdapter
    /\ adEnv.calls < MaxCalls
    /\ \E cls \in BackendClasses, cfg \in Configs :
         LET c == Construct(cls, cfg) IN
         /\ ad' = IF c.ok THEN NewAdapter(cls, cfg) ELSE NoAdapter
         /\ adOut' = CallOut("__init__", c.err, NoDict, <<>>, FALSE)
    /\ adEnv' = [StepEnv(adEnv, adOut, FALSE) EXCEPT !.constructs = @ + 1]
    /\ UNCHANGED hostVars
    /\ UNCHANGED drvVars
    /\ UNCHANGED cl

AdLoad ==
    /\ ad # NoAdapter
    /\ adEnv.calls < MaxCalls
    /\ \E how \in LoadOutcomes :
         LET r == LoadCall(ad, adEnv, how) IN
         \* a package that was imported once stays imported
         /\ how = "unavailable" => ~adEnv.loadReturned
         /\ ad' = r.ad
         /\ adEnv' = [StepEnv(r.env, adOut, r.err = Null) EXCEPT !.loads = @ + 1]
         /\ adOut' = CallOut("load", r.err, NoDict, <<>>, FALSE)
    /\ UNCHANGED hostVars
    /\ UNCHANGED drvVars
    /\ UNCHANGED cl

AdCalculate ==
    /\ ad # NoAdapter
    /\ adEnv.calls < MaxCalls
    /\ \E p \in {q \in Payloads : q.kind = "ok"}, stressFails \in BOOLEAN :
         adOut' = [CalculateCall(ad, p, stressFails) EXCEPT !.arg = p]
    /\ adEnv' = StepEnv(adEnv, adOut, FALSE)
    /\ UNCHANGED ad
    /\ UNCHANGED hostVars
    /\ UNCHANGED drvVars
    /\ UNCHANGED cl

\* is_loaded(), get_name(), get_version().
AdAccessor ==
    /\ ad # NoAdapter
    /\ adEnv.calls < MaxCalls
    /\ \E acc \in {"is_loaded", "get_name", "get_version"} :
         adOut' = AccessorCall(ad, acc)
    /\ adEnv' = StepEnv(adEnv, adOut, FALSE)
    /\ UNCHANGED ad
    /\ UNCHANGED hostVars
    /\ UNCHANGED drvVars
    /\ UNCHANGED cl

AdCleanup ==
    /\ ad # NoAdapter
    /\ adEnv.calls < MaxCalls
    /\ \E rmOk \in BOOLEAN :
         LET r == CleanupCall(ad, adEnv, rmOk) IN
         /\ ad' = r.ad
         /\ adEnv' = StepEnv(r.env, adOut, FALSE)
         /\ adOut' = CallOut("cleanup", r.err, NoDict, <<>>, FALSE)
    /\ UNCHANGED hostVars
    /\ UNCHANGED drvVars
    /\ UNCHANGED cl

\* The adapter object is dropped and finalized.
AdDel ==
    /\ ad # NoAdapter
    /\ adEnv.calls < MaxCalls
    /\ \E rmOk \in BOOLEAN :
         adEnv' = [StepEnv(Teardown(ad, adEnv, rmOk), adOut, FALSE)
                      EXCEPT !.loadReturned = FALSE]
    /\ ad' = NoAdapter
    /\ adOut' = CallOut("__del__", Null, NoDict, <<>>, FALSE)
    /\ UNCHANGED hostVars
    /\ UNCHANGED drvVars
    /\ UNCHANGED cl

\* load_backend(name, **config) called for a new instance.
AdLoadBackend ==
    /\ ad = NoAdapter
    /\ adEnv.calls < MaxCalls
    /\ \E name \in LoadableNames, cfg \in Configs, how \in LoadOutcomes,
          rmOk \in BOOLEAN :
         LET r == LoadBackendCall(name, cfg, how, rmOk, adEnv) IN
         /\ ad' = r.ad
         /\ adEnv' = StepEnv(r.env, adOut, r.err = Null)
         /\ adOut' = [CallOut("load_backend", r.err, NoDict, <<>>, FALSE)
                         EXCEPT !.name = name, !.config = cfg]
    /\ UNCHANGED hostVars
    /\ UNCHANGED drvVars
    /\ UNCHANGED cl

(* ------------------------------------------------ client: the process *)

\* A value of the response body: the key is absent, null, or holds v.
JAbsent(v) == [kind |-> "absent", v |-> v]
JNull(v) == [kind |-> "null", v |-> v]
JValue(v) == [kind |-> "value", v |-> v]

\* np.array of a JSON value: None gives the 0-d array, a list of rows the
\* array of its rows.
ScalarArray == [shape |-> <<>>, rows |-> <<>>]
NpArray(j) == IF j.kind = "null" THEN ScalarArray ELSE j.v

\* The file args.input names: not there, gone between main()'s check and the
\* read, of an unknown extension, not parseable, or a structure (its atoms
\* and whether any of pbc is set).
NoAtoms == [i \in 1..1 |-> CHOOSE a \in AtomKinds : TRUE]
ClientInputs ==
    { [kind |-> k, atoms |-> NoAtoms, periodic |-> FALSE] :
        k \in {"missing", "vanished", "unknown extension", "unparseable"} }
    \cup { [kind |-> "structure", atoms |-> a, periodic |-> per] :
             a \in UNION { [1..n -> AtomKinds] : n \in 1..MaxAtoms },
             per \in BOOLEAN }

\* What read_structure raises for an input that is not a structure: it turns
\* every failure of the read into a ValueError.
ReadError(input) ==
    IF input.kind \in {"vanished", "unknown extension", "unparseable"}
    THEN "ValueError" ELSE Null

\* atoms.get_volume() of what was read: the cell's volume, or -1 where there
\* is no cell and get_volume raises.
VolumeOf(input) == IF input.periodic THEN 64 ELSE -1

\* Forces a response can hold: lists of up to MaxAtoms + 1 equal rows.
ResponseForces ==
    { f \in ForcesArrays :
        /\ Len(f.shape) = 2 /\ f.shape[2] = 3 /\ f.shape[1] >= 1
        /\ \A i \in 1..f.shape[1] : f.rows[i] = f.rows[1] }

\* Stress a response can hold: a 6-vector, or a list of another length.
ResponseStresses == { s \in Stresses : s.kind \in {"voigt", "vector3"} }
NoStress == CHOOSE s \in Stresses : s.kind = "None"

\* The body of a 200 response: whether it is JSON, its energy, forces and
\* stress, and whether it has the keys backend and version.
AnEnergy == CHOOSE e \in Energies : TRUE
Bodies ==
    [json : {TRUE},
     energy : {JAbsent(AnEnergy), JNull(AnEnergy)} \cup {JValue(e) : e \in Energies},
     forces : {JAbsent(ScalarArray), JNull(ScalarArray)}
                 \cup {JValue(f) : f \in ResponseForces},
     stress : {JAbsent(NoStress), JNull(NoStress)}
                 \cup {JValue(s) : s \in ResponseStresses},
     meta : BOOLEAN]
NoBody == [json |-> FALSE, energy |-> JAbsent(AnEnergy), forces |-> JAbsent(ScalarArray),
           stress |-> JAbsent(NoStress), meta |-> FALSE]

\* How requests.post ends: an exception, or a response with a status.
NoNet == [kind |-> "none", status |-> 0, body |-> NoBody]
NetOutcomes ==
    { [kind |-> k, status |-> 0, body |-> NoBody] :
        k \in {"ConnectionError", "Timeout", "RequestException"} }
    \cup { [kind |-> "response", status |-> s, body |-> NoBody] : s \in {422, 500} }
    \cup { [kind |-> "response", status |-> 200, body |-> b] : b \in Bodies \cup {NoBody} }

\* The lines after the request, up to the call of write_drv: the first of
\* them that raises, or Null.
ExtractError(body) ==
    CASE ~body.json -> "JSONDecodeError"
      [] body.energy.kind = "absent" -> "KeyError"
      [] body.forces.kind = "absent" -> "KeyError"
      [] body.energy.kind = "null" -> "TypeError"
      [] ~body.meta -> "KeyError"
      [] OTHER -> Null

\* The arguments calculate_via_host gives write_drv.
DrvArguments(input, body, before) ==
    [atoms |-> input.atoms,
     energy |-> body.energy.v,
     forces |-> NpArray(body.forces),
     stress |-> IF body.stress.kind = "value" THEN body.stress.v ELSE NoStress,
     volume |-> VolumeOf(input),
     before |-> before]

\* A process that exits 0 whatever happened.
ExitCodeZero(success) == 0

\* sys.exit(0 if success else 1)
ExitCode(success) == IF success THEN 0 ELSE 1

ClientStart ==
    [st |-> "start", input |-> [kind |-> "none", atoms |-> NoAtoms, periodic |-> FALSE],
     props |-> {}, net |-> NoNet, ret |-> Null, err |-> Null, exit |-> -1,
     before |-> Missing]

\* calculate_via_host returns False, after the exception err if there was one.
ReturnFalse(c, err) == [c EXCEPT !.st = "returned", !.ret = "False", !.err = err]

\* main() up to the call of calculate_via_host: an input that does not exist
\* ends the process with 1.
ClMain ==
    /\ cl.st = "start"
    /\ \E input \in ClientInputs :
         cl' = IF input.kind = "missing"
               THEN [cl EXCEPT !.st = "exited", !.input = input, !.exit = 1,
                               !.before = drvFile]
               ELSE [cl EXCEPT !.st = "called", !.input = input, !.before = drvFile]
    /\ UNCHANGED hostVars
    /\ UNCHANGED drvVars
    /\ UNCHANGED adVars

\* read_structure and the making of the request.
ClRead ==
    /\ cl.st = "called"
    /\ cl' = IF ReadError(cl.input) # Null
             THEN ReturnFalse(cl, ReadError(cl.input))
             ELSE [cl EXCEPT !.st = "posted",
                             !.props = {"energy", "forces"}
                                 \cup (IF cl.input.periodic THEN {"stress"} ELSE {})]
    /\ UNCHANGED hostVars
    /\ UNCHANGED drvVars
    /\ UNCHANGED adVars

\* requests.post and the look at the status.
ClPost ==
    /\ cl.st = "posted"
    /\ \E net \in NetOutcomes :
         cl' = IF net.kind # "response"
               THEN [ReturnFalse(cl, net.kind) EXCEPT !.net = net]
               ELSE IF net.status # 200
               THEN [ReturnFalse(cl, Null) EXCEPT !.net = net]
               ELSE [cl EXCEPT !.st = "received", !.net = net]
    /\ UNCHANGED hostVars
    /\ UNCHANGED drvVars
    /\ UNCHANGED adVars

\* The results taken from the response and given to write_drv.
ClWrite ==
    /\ cl.st = "received"
    /\ IF ExtractError(cl.net.body) # Null
       THEN /\ cl' = ReturnFalse(cl, ExtractError(cl.net.body))
            /\ UNCHANGED drvVars
       ELSE LET in == DrvArguments(cl.input, cl.net.body, drvFile)
                r == WriteDrvResult(in)
            IN /\ drvIn' = in
               /\ drvFile' = r.file
               /\ drvOut' = r
               /\ cl' = IF r.err = Null
                        THEN [cl EXCEPT !.st = "returned", !.ret = "True"]
                        ELSE ReturnFalse(cl, r.err)
    /\ UNCHANGED hostVars
    /\ UNCHANGED adVars

\* sys.exit(0 if success else 1)
ClExit ==
    /\ cl.st = "returned"
    /\ cl' = [cl EXCEPT !.st = "exited", !.exit = ExitCode(cl.ret = "True")]
    /\ UNCHANGED hostVars
    /\ UNCHANGED drvVars
    /\ UNCHANGED adVars

(* ------------------------------------------------------ host: the system *)

HostInit ==
    /\ phase = "init"
    /\ entry = "none"
    /\ backend = NoBackend
    /\ exitCode = -1
    /\ reqs = <<>>
    /\ loop = 0
    /\ calc = NoResults
    /\ hreq = [st |-> "none", resp |-> NoHealth]
    /\ cleanups = 0

\* In the host process write_drv is not called.
DrvIdle ==
    /\ drvIn = Null
    /\ drvFile = Missing
    /\ drvOut = [file |-> Missing, err |-> "no call", msg |-> Null, ops |-> <<>>]

\* No adapter is driven apart from the host's.
AdInit ==
    /\ ad = NoAdapter
    /\ adEnv = [disk |-> {}, dirs |-> 0, calcs |-> 0, calls |-> 0, prev |-> "none",
                loadReturned |-> FALSE, constructs |-> 0, loads |-> 0]
    /\ adOut = NoCall

\* No client process is run.
ClIdle == cl = ClientStart

Init == HostInit /\ DrvIdle /\ AdInit /\ ClIdle

Next ==
    \/ Main
    \/ ServeApp
    \/ Arrive
    \/ Abandon
    \/ Dispatch
    \/ Drop
    \/ Compute
    \/ Respond
    \/ HealthArrive
    \/ Health
    \/ Shutdown
    \/ ProcessEnd

Spec == Init /\ [][Next]_vars

\* The event loop runs a task that is ready, and a handler that has begun runs
\* to its return.
FairSpec ==
    /\ Spec
    /\ WF_vars(Dispatch)
    /\ WF_vars(Compute)
    /\ WF_vars(Respond)

\* write_drv called once on arguments drawn from DrvInputs.
DrvInit ==
    /\ HostInit
    /\ AdInit
    /\ ClIdle
    /\ drvIn \in DrvInputs
    /\ drvFile = drvIn.before
    /\ drvOut = NotCalled

DrvNext == WriteDrv

DrvSpec == DrvInit /\ [][DrvNext]_vars

\* One adapter: constructed, then any calls of its methods in any order.
AdapterNext ==
    \/ AdNew
    \/ AdLoadBackend
    \/ AdLoad
    \/ AdCalculate
    \/ AdAccessor
    \/ AdCleanup
    \/ AdDel

AdapterSpec == Init /\ [][AdapterNext]_vars

\* One run of the client, with or without an output file of an earlier run.
ClientInit ==
    /\ HostInit
    /\ AdInit
    /\ ClIdle
    /\ drvIn = Null
    /\ drvFile \in {Missing, OldFile}
    /\ drvOut = NotCalled

ClientNext ==
    \/ ClMain
    \/ ClRead
    \/ ClPost
    \/ ClWrite
    \/ ClExit

ClientSpec == ClientInit /\ [][ClientNext]_vars

(* ------------------------------------------------- claims: host service *)

Answered(i) == reqs[i].st = "answered"
NotReady(i) == reqs[i].payload.kind # "schema" /\ backend = NoBackend
Failed(i) == Answered(i) /\ reqs[i].resp.status # 200

\* The response a request gets when it is the only one the service handles.
SequentialResponse(b, p) ==
    FormatResponse(CalculateResults(b, p, Results(p.struct)))

\* C1: in every reachable state at most one backend.calculate() call is in
\* progress against the shared backend, however many requests have arrived.
C1_SingleFlight ==
    Cardinality({i \in 1..Len(reqs) : InCalc(reqs[i])}) <= 1

\* Two requests are in the service at once: one inside backend.calculate, one
\* waiting.
C1_Witness ==
    \E i, j \in 1..Len(reqs) :
        InCalc(reqs[i]) /\ reqs[j].st = "pending" /\ reqs[j].payload.kind = "ok"

\* C2: a request answered 200 carries the result computed for its own
\* structure, the response it gets when issued alone, and a request whose
\* computation is done is about to be given that response, whatever other
\* requests were in the service at the same time.
C2_OwnResult ==
    \A i \in 1..Len(reqs) :
        /\ (Answered(i) /\ reqs[i].resp.status = 200)
              => reqs[i].resp = SequentialResponse(backend, reqs[i].payload)
        /\ reqs[i].st = "computed"
              => FormatResponse(CalculateResults(backend, reqs[i].payload, calc))
                    = SequentialResponse(backend, reqs[i].payload)

\* Request j arrived after request i and is already answered 200 while i, with
\* another structure, has been computed and not yet answered: the two were in
\* the service together.
C2_Witness ==
    \E i, j \in 1..Len(reqs) :
        /\ i < j
        /\ reqs[i].st = "computed"
        /\ Answered(j) /\ reqs[j].resp.status = 200
        /\ reqs[i].payload.struct # reqs[j].payload.struct

\* C3: started by main(), the service accepts requests only with a backend
\* whose load() returned; when construction or load() raised, the process
\* has exit code 1 and no request was ever accepted.
C3_LoadBeforeServe ==
    /\ (entry = "main" /\ phase \in {"serving", "stopped", "ended"})
          => backend # NoBackend
    /\ (entry = "main" /\ backend = NoBackend)
          => (phase = "exited" /\ exitCode = 1 /\ reqs = <<>> /\ hreq.st = "none")
    /\ phase = "exited" => exitCode = 1

C3_Witness ==
    entry = "main" /\ phase = "exited" /\ exitCode = 1

\* C4 (at the service boundary): a request that is not ready, has a structure
\* that cannot be built or whose computation raised is answered 500 with a
\* message, and the process is still there.
C4_Boundary ==
    /\ \A i \in 1..Len(reqs) :
          /\ (Answered(i) /\ NotReady(i))
                => (reqs[i].resp.status = 500 /\ reqs[i].resp.detail = "Backend not loaded")
          /\ (Failed(i) /\ reqs[i].payload.kind # "schema")
                => (reqs[i].resp.status = 500 /\ reqs[i].resp.detail # Null)
          /\ (Answered(i) /\ reqs[i].payload.kind = "mismatch") => Failed(i)
    /\ reqs # <<>> => (phase \in {"serving", "stopped", "ended"} /\ exitCode = -1)

\* C4 (the service goes on): the event loop is held exactly while a request
\* is inside backend.calculate, so after every outcome it is free again; a
\* request inside backend.calculate can go on to an answer, and when none is
\* and the server runs, a waiting request can be dispatched.
C4_GoesOn ==
    /\ (loop = 0) <=> (\A i \in 1..Len(reqs) : ~InCalc(reqs[i]))
    /\ loop # 0 => (loop \in 1..Len(reqs) /\ InCalc(reqs[loop])
                     /\ (ENABLED Compute \/ ENABLED Respond))
    /\ (phase = "serving" /\ (\A i \in 1..Len(reqs) : ~InCalc(reqs[i]))
          /\ (\E i \in 1..Len(reqs) : reqs[i].st = "pending"))
          => ENABLED Dispatch

\* C4: any failure of one calculate request is answered 500 with a message,
\* no request outcome ends the process, and after every outcome (an answer, a
\* failure, a client that gave up) the service can dispatch and answer the
\* requests that wait.
C4_FailuresContained == C4_Boundary /\ C4_GoesOn

SettledAt(i) == Len(reqs) >= i /\ Settled(reqs[i])

\* C4 as a liveness property, under FairSpec: while the service runs, every
\* request that has arrived is in the end answered (or dropped, its client
\* gone), whatever became of the others, and only a shutdown ends the serving.
C4_Progress ==
    /\ [][(phase = "serving" /\ phase' # "serving")
             => (phase' = "stopped" /\ reqs' = reqs)]_vars
    /\ \A i \in 1..MaxReq :
          (Len(reqs) >= i) ~> (SettledAt(i) \/ phase # "serving")

\* A request was given up by its client and its computation failed, and a
\* request that arrived after it is answered 200.
C4_Witness ==
    \E i, j \in 1..Len(reqs) :
        /\ i < j
        /\ Failed(i) /\ reqs[i].resp.detail = "ComputeError" /\ reqs[i].abandoned
        /\ Answered(j) /\ reqs[j].resp.status = 200

\* C5: a /health request never waits for a calculation: whenever one is
\* pending, the server can answer it.
C5_HealthNeverWaits ==
    (phase = "serving" /\ hreq.st = "pending") => ENABLED Health

\* A waiting request that will reach backend.calculate when it is taken up.
WillCompute(r) ==
    r.st = "pending" /\ ~r.abandoned /\ BeforeCalculate(r.payload, backend) = NoResp

\* C6: no request starts its computation while a request that arrived before
\* it, and will be computed, is still waiting.
C6_ArrivalOrder ==
    [][\A i \in 1..Len(reqs) :
          (reqs[i].st = "pending" /\ reqs'[i].st = "calc")
             => \A j \in 1..(i - 1) : ~WillCompute(reqs[j])]_vars

\* The failure kinds of C7.
FailureKind(i) ==
    CASE NotReady(i) -> "not ready"
      [] ~NotReady(i) /\ reqs[i].payload.kind \in {"mismatch", "schema"} -> "rejected"
      [] OTHER -> "computation failed"

\* C7: the status of a failed calculate tells the failure kinds apart: two
\* failures of different kinds never carry the same status.
C7_StatusTellsKind ==
    \A i, j \in 1..Len(reqs) :
        (Failed(i) /\ Failed(j) /\ FailureKind(i) # FailureKind(j))
           => reqs[i].resp.status # reqs[j].resp.status

\* C7 as amended: the status does not tell the three kinds apart. No backend,
\* a structure that cannot be built and a computation that raised are all
\* answered 500; only a body that is no CalculationRequest is answered
\* otherwise, 422.
C7_SameStatus ==
    \A i \in 1..Len(reqs) :
        Failed(i) =>
            reqs[i].resp.status = IF reqs[i].payload.kind = "schema" THEN 422 ELSE 500

\* A rejected structure and a failed computation, both answered 500.
C7_Witness ==
    \E i, j \in 1..Len(reqs) :
        /\ Failed(i) /\ reqs[i].payload.kind = "mismatch"
        /\ Failed(j) /\ reqs[j].resp.detail = "ComputeError"
        /\ reqs[i].resp.status = reqs[j].resp.status

(* ---------------------------------------------------- claims: write_drv *)

\* write_drv has been called and got past its shape check: it opened the file.
Opened == drvOut # NotCalled /\ drvOut.ops # <<>>

\* The text of the opposite number: the same digits under the other sign.
Opposite(text) == [text EXCEPT !.sign = -text.sign]

IsGradient(l) == l.tag = "gradient"
IsStrain(l) == l.tag = "strain"
GradientLines == SelectSeq(drvFile, IsGradient)
StrainLines == SelectSeq(drvFile, IsStrain)

\* C8: in a file write_drv has written, the gradients section follows its
\* header, has one row per atom, row i carries the 1-based index i and, for
\* each component c, the text of forces[i][c] under the opposite sign.
C8_GradientsNegateForces ==
    Opened =>
        LET n == Len(drvIn.atoms) IN
        /\ Len(GradientLines) = n
        /\ Len(drvFile) >= 2 * n + 3
        /\ drvFile[n + 3].tag = "gradients cartesian eV/Ang"
        /\ \A i \in 1..n :
            /\ drvFile[n + 3 + i] = GradientLines[i]
            /\ GradientLines[i].idx = i
            /\ \A c \in 1..3 :
                GradientLines[i].vals[c] = Opposite(Fixed(drvIn.forces.rows[i][c], 8))

\* Two atoms with different forces, one of them with a zero and one with a
\* digit beyond the field, written in the order given.
C8_Witness ==
    /\ Opened
    /\ Len(drvIn.atoms) = 2
    /\ drvIn.forces.rows[1] # drvIn.forces.rows[2]
    /\ drvIn.forces.rows[2][1] = Num(-1, 1234567894, 9)
    /\ GradientLines[2].idx = 2
    /\ GradientLines[2].vals[1] = [sign |-> 1, digits |-> 8, units |-> 123456789]
    /\ GradientLines[2].vals[3] = [sign |-> 1, digits |-> 8, units |-> 0]

\* The Voigt vector [xx, yy, zz, yz, xz, xy] of the stress given: the vector
\* itself, or the one read off the lower triangle of the matrix.
IsSymmetric(m) == \A r, c \in 1..3 : m[r][c] = m[c][r]
VoigtOf(stress) ==
    IF stress.kind = "voigt" THEN stress.v
    ELSE <<stress.v[1][1], stress.v[2][2], stress.v[3][3],
           stress.v[3][2], stress.v[3][1], stress.v[2][1]>>
StressGiven ==
    \/ drvIn.stress.kind = "voigt"
    \/ drvIn.stress.kind = "matrix" /\ IsSymmetric(drvIn.stress.v)
StrainText(k) == Opposite(Fixed(Times(VoigtOf(drvIn.stress)[k], drvIn.volume), 8))

\* C9: for a stress given as a 6-vector or a symmetric 3x3 matrix and a cell
\* with volume V, the file has exactly two strain rows after the strain
\* header: (-s_xx*V, -s_yy*V, -s_zz*V) and (-s_yz*V, -s_xz*V, -s_xy*V), s the
\* Voigt vector of the stress, and write_drv returns; without stress the file
\* has no strain row.
C9_StrainRows ==
    Opened =>
        IF drvIn.stress.kind = "None" THEN StrainLines = <<>>
        ELSE StressGiven /\ drvIn.volume >= 0 =>
            /\ drvOut.err = Null
            /\ Len(StrainLines) = 2
            /\ drvFile[Len(drvFile) - 2].tag = "gradients strain eV"
            /\ drvFile[Len(drvFile) - 1] = StrainLines[1]
            /\ drvFile[Len(drvFile)] = StrainLines[2]
            /\ StrainLines[1].vals = <<StrainText(1), StrainText(2), StrainText(3)>>
            /\ StrainLines[2].vals = <<StrainText(4), StrainText(5), StrainText(6)>>

\* A symmetric matrix of stress (1, 2, 3, 4, 5, 6) * 10^-3 and volume 64:
\* rows (-0.064, -0.128, -0.192) and (-0.256, -0.320, -0.384).
C9_Witness ==
    /\ Opened
    /\ drvIn.stress.kind = "matrix"
    /\ drvIn.stress.v[1][1] = Num(1, 1000000, 9)
    /\ drvIn.volume = 64
    /\ Len(StrainLines) = 2
    /\ StrainLines[1].vals = <<[sign |-> -1, digits |-> 8, units |-> 6400000],
                                   [sign |-> -1, digits |-> 8, units |-> 12800000],
                                   [sign |-> -1, digits |-> 8, units |-> 19200000]>>
    /\ StrainLines[2].vals = <<[sign |-> -1, digits |-> 8, units |-> 25600000],
                                   [sign |-> -1, digits |-> 8, units |-> 32000000],
                                   [sign |-> -1, digits |-> 8, units |-> 38400000]>>

\* forces holds exactly one 3-vector per atom.
OneVectorPerAtom ==
    /\ Len(drvIn.forces.shape) = 2
    /\ drvIn.forces.shape[1] = Len(drvIn.atoms)
    /\ drvIn.forces.shape[2] = 3

\* C10: called with forces that do not hold one 3-vector per atom, write_drv
\* raises the ValueError of its shape check, has not opened the file, and the
\* path holds what it held before: nothing, or the old file as it was.
C10_ShapeCheckedFirst ==
    drvOut # NotCalled /\ ~OneVectorPerAtom =>
        /\ drvOut.err = "ValueError"
        /\ drvOut.msg = "Forces shape"
        /\ drvOut.ops = <<>>
        /\ drvFile = drvIn.before

\* One row per atom but two numbers in each, and an old file at the path.
C10_Witness ==
    /\ drvOut # NotCalled
    /\ drvIn.forces.shape = <<Len(drvIn.atoms), 2>>
    /\ drvIn.before = OldFile
    /\ drvOut.err = "ValueError"
    /\ drvFile = OldFile

\* write_drv raised.
Raised == drvOut # NotCalled /\ drvOut.err # Null

\* C11: whenever write_drv raises, the output file has not been created,
\* truncated or written: the path holds what it held before the call.
C11_RejectBeforeMutate ==
    Raised => (drvOut.ops = <<>> /\ drvFile = drvIn.before)

\* The positions of an operation in the log of the call.
OpsAt(op) == {k \in 1..Len(drvOut.ops) : drvOut.ops[k] = op}

\* C12: when write_drv returns, every line of the file was written by a write
\* that came before one flush, the flush before one fsync, and the fsync
\* before the file was closed and the function returned.
C12_FlushedAndSynced ==
    (drvOut # NotCalled /\ drvOut.err = Null) =>
        /\ Cardinality(OpsAt("write")) = Len(drvFile)
        /\ Cardinality(OpsAt("flush")) = 1
        /\ Cardinality(OpsAt("fsync")) = 1
        /\ \A w \in OpsAt("write"), f \in OpsAt("flush"), s \in OpsAt("fsync"),
              c \in OpsAt("close") : w < f /\ f < s /\ s < c

\* A return with a strain section: its rows too were written before the flush.
C12_Witness ==
    /\ drvOut # NotCalled /\ drvOut.err = Null
    /\ Len(StrainLines) = 2
    /\ drvOut.ops[Len(drvOut.ops) - 2] = "flush"
    /\ drvOut.ops[Len(drvOut.ops) - 1] = "fsync"

IsStrainHeader(l) == l.tag = "gradients strain eV"

\* C13: a file write_drv has opened holds the strain header if and only if
\* the stress argument is not None, and when write_drv returns the header is
\* followed by the two strain rows.
C13_StrainIffStress ==
    Opened =>
        /\ (SelectSeq(drvFile, IsStrainHeader) # <<>>) <=> (drvIn.stress.kind # "None")
        /\ drvIn.stress.kind = "None" => StrainLines = <<>>
        /\ (drvOut.err = Null /\ drvIn.stress.kind # "None") => Len(StrainLines) = 2

\* A periodic cell and no stress given: a file without strain section; this
\* and a file with one are both written.
C13_Witness ==
    /\ Opened /\ drvOut.err = Null
    /\ drvIn.stress.kind = "None" /\ drvIn.volume = 64
    /\ SelectSeq(drvFile, IsStrainHeader) = <<>>

(* ----------------------------------------------------- claims: backends *)

\* A value is there: neither a key missing from the dict nor None.
Present(v) == v # Absent /\ v # None
Calculated == adOut.call = "calculate" /\ adOut.err = Null

\* C14: in every result of calculate, forces are present iff "forces" was
\* requested, and stress is present iff "stress" was requested and the
\* structure is periodic; a stress that is not present is never a zero vector.
C14_PresentIffRequested ==
    Calculated =>
        /\ Present(adOut.results.forces) <=> ("forces" \in adOut.arg.props)
        /\ Present(adOut.results.stress)
              <=> ("stress" \in adOut.arg.props /\ Periodic(adOut.arg.struct))

\* C15: a calculate call that returns the zero vector put in place of a
\* computed stress has logged that substitution.
C15_ZeroStressLogged ==
    (Calculated /\ adOut.results.stress = Zeros6) => adOut.logs # <<>>

\* C16: load() on a loaded adapter raises nothing, makes no calculator and no
\* temporary directory and leaves the adapter as it was.
C16_LoadIdempotent ==
    [][(IsLoaded(ad) /\ adOut'.call = "load")
          => /\ adOut'.err = Null
             /\ ad' = ad
             /\ adEnv'.calcs = adEnv.calcs
             /\ adEnv'.dirs = adEnv.dirs]_vars

\* C17: after a load() that raised, the adapter is not loaded and holds
\* nothing: no calculator, no _loaded, no temporary directory.
C17_FailedLoadLeavesNothing ==
    (adOut.call = "load" /\ adOut.err # Null)
        => (~IsLoaded(ad) /\ ~ad.loaded /\ ad.calculator = 0 /\ ad.tempDir = 0)

\* C18: calculate() on an adapter none of whose load() calls has returned
\* raises the not-loaded RuntimeError, attaches no calculator to the atoms
\* and returns no property.
C18_NotLoadedError ==
    (adOut.call = "calculate" /\ ~adEnv.loadReturned)
        => (adOut.err = "RuntimeError" /\ ~adOut.attached /\ adOut.results = NoDict)

\* calculate() refused on a GULP adapter whose load() failed after it had made
\* its temporary directory.
C18_Witness ==
    /\ adOut.call = "calculate" /\ adOut.err = "RuntimeError"
    /\ ad.cls = "GULPBackend" /\ ad.tempDir # 0
    /\ adEnv.prev = "load" /\ ~adEnv.loadReturned

\* C19: is_loaded() and _loaded become true only in a load() that returns,
\* and false only in a cleanup().
C19_LoadedFlag ==
    [][/\ ((~IsLoaded(ad) /\ IsLoaded(ad')) \/ (~ad.loaded /\ ad'.loaded))
            => (adOut'.call \in {"load", "load_backend"} /\ adOut'.err = Null)
       /\ (ad' # NoAdapter
             /\ ((IsLoaded(ad) /\ ~IsLoaded(ad')) \/ (ad.loaded /\ ~ad'.loaded)))
            => adOut'.call = "cleanup"]_vars

\* The flag has gone up in a load() and down again in the cleanup() after it.
C19_Witness ==
    /\ adOut.call = "cleanup" /\ adEnv.prev = "load" /\ adEnv.loadReturned
    /\ ~IsLoaded(ad) /\ ~ad.loaded

\* C20: cleanup() never raises, loaded or not, and a cleanup() that follows a
\* cleanup() leaves the adapter as the first one left it.
C20_CleanupRepeatable ==
    [][adOut'.call = "cleanup"
          => /\ adOut'.err = Null
             /\ adOut.call = "cleanup" => ad' = ad]_vars

\* Two cleanups in a row on an adapter that was never loaded, and two in a
\* row on one that held a temporary directory the first could not remove.
C20_Witness ==
    /\ adOut.call = "cleanup" /\ adEnv.prev = "cleanup" /\ adOut.err = Null
    /\ ad.cls = "GULPBackend"
    /\ (~adEnv.loadReturned \/ adEnv.disk # {})

(* ------------------------------------------ claims: host service, again *)

\* C22: cleanup() is invoked on the held backend exactly once, by the
\* shutdown handler: not before the shutdown, once at the shutdown and at no
\* time after it.
C22_CleanupOnce ==
    /\ phase \in {"init", "serving"} => cleanups = 0
    /\ (phase \in {"stopped", "ended"} /\ backend # NoBackend) => cleanups = 1

\* C25: a request whose symbols and positions differ in number is never
\* inside backend.calculate; a service with a backend answers it 500 with the
\* ValueError of the Atoms constructor.
C25_MismatchRejected ==
    \A i \in 1..Len(reqs) :
        reqs[i].payload.kind = "mismatch" =>
            /\ ~InCalc(reqs[i])
            /\ (Answered(i) /\ backend # NoBackend)
                  => (reqs[i].resp.status = 500 /\ reqs[i].resp.detail = "ValueError")

\* Such a request answered by a service with a loaded backend that has
\* computed for another request.
C25_Witness ==
    \E i, j \in 1..Len(reqs) :
        /\ reqs[i].payload.kind = "mismatch" /\ Answered(i) /\ backend # NoBackend
        /\ Answered(j) /\ reqs[j].resp.status = 200

\* C27: a health query answered while the global `backend` is None reports
\* backend_loaded = false and null name and version.
C27_HealthNotLoaded ==
    (hreq.st = "answered" /\ backend = NoBackend) =>
        /\ hreq.resp.status = "healthy"
        /\ hreq.resp.backend_loaded = FALSE
        /\ hreq.resp.backend_name = None
        /\ hreq.resp.backend_version = None

\* The app served without main(): a health query answered with no backend.
C27_Witness ==
    phase = "serving" /\ entry = "asgi" /\ hreq.st = "answered" /\ backend = NoBackend

\* C29: with a loaded backend whose computation does not raise, a well-formed
\* request is answered 200 whatever properties it lists.
C29_AnyPropertyList ==
    \A i \in 1..Len(reqs) :
        (Answered(i) /\ backend # NoBackend /\ reqs[i].payload.kind = "ok"
           /\ reqs[i].resp.detail # "ComputeError")
            => reqs[i].resp.status = 200

(* --------------------------------------------- claims: adapters, again *)

\* C21: once cleanup() or the adapter's teardown has run, none of the
\* temporary directories made by load() exists any more.
C21_TempDirsRemoved ==
    adOut.call \in {"cleanup", "__del__"} => adEnv.disk = {}

\* C23: get_name() and get_version() return without raising, launch no
\* process and leave the adapter and everything outside it as they were.
C23_PureAccessors ==
    [][adOut'.call \in {"get_name", "get_version"} =>
          /\ adOut'.err = Null
          /\ ~adOut'.launched
          /\ ad' = ad
          /\ adEnv'.disk = adEnv.disk /\ adEnv'.calcs = adEnv.calcs]_vars

\* C24: load_backend with a name outside the mapping raises ValueError, with
\* no constructor called, no load() called and no instance made; main() given
\* that result exits and does not serve.
C24_UnknownName ==
    /\ [][(adOut'.call = "load_backend" /\ adOut'.name \notin BackendNames) =>
             /\ adOut'.err = "ValueError"
             /\ ad' = NoAdapter
             /\ adEnv'.constructs = adEnv.constructs
             /\ adEnv'.loads = adEnv.loads
             /\ adEnv'.dirs = adEnv.dirs /\ adEnv'.calcs = adEnv.calcs]_vars
    /\ \A name \in LoadableNames \ BackendNames, cfg \in Configs, loadOk \in BOOLEAN :
          LET r == LoadBackend(name, cfg, loadOk) IN
          /\ r.err = "ValueError"
          /\ MainAfterLoad(r).phase = "exited"
          /\ MainAfterLoad(r).exitCode = 1

\* load_backend has been called with the unknown name after constructors and
\* loads have run for other names.
C24_Witness ==
    /\ adOut.call = "load_backend" /\ adOut.name = "mace"
    /\ adOut.err = "ValueError"
    /\ adEnv.constructs > 0 /\ adEnv.loads > 0

\* C30: load_backend with a registered name and a valid configuration
\* constructs one instance without an error and calls its load() once.
C30_ConstructThenLoad ==
    [][(adOut'.call = "load_backend" /\ adOut'.name \in BackendNames
          /\ adOut'.config.modelTaskKnown) =>
             /\ adEnv'.constructs = adEnv.constructs + 1
             /\ adEnv'.loads = adEnv.loads + 1
             /\ adOut'.err \notin {"AttributeError", "ValueError"}]_vars

(* ------------------------------------------------------ claims: client *)

\* The response is one the client cannot use: not JSON, or without a usable
\* energy, forces or backend/version.
Malformed(body) ==
    \/ ~body.json
    \/ body.energy.kind # "value"
    \/ body.forces.kind # "value"
    \/ ~body.meta

\* The encoder was called and raised.
EncoderError == drvOut # NotCalled /\ drvOut.err # Null

\* One of the failures of a run: no input file, no structure read, no
\* response, a status other than 200, a malformed response, an encoder error.
RunFailed ==
    \/ cl.input.kind # "structure"
    \/ cl.net.kind # "response"
    \/ cl.net.status # 200
    \/ Malformed(cl.net.body)
    \/ EncoderError

\* C26: a client process that has ended has exit code 1 after any failure
\* and 0 otherwise, and with 0 the derivative file is the one write_drv
\* wrote in full and forced to the disk.
C26_ExitCodes ==
    cl.st = "exited" =>
        /\ cl.exit = (IF RunFailed THEN 1 ELSE 0)
        /\ cl.exit = 0 =>
              /\ cl.ret = "True"
              /\ drvOut # NotCalled /\ drvOut.err = Null
              /\ drvFile = drvOut.file /\ drvFile \notin {Missing, OldFile}
              /\ OpsAt("fsync") # {}

\* A run for a periodic structure has ended with 0 and a strain section in
\* the file written over that of an earlier run.
C26_Witness ==
    /\ cl.st = "exited" /\ cl.exit = 0
    /\ cl.input.periodic /\ cl.before = OldFile
    /\ \E k \in 1..Len(drvFile) : drvFile[k].tag = "gradients strain eV"

\* The calculation failed before encoding: no 200 response, or a 200 response
\* whose forces or energy are null or not there.
FailedBeforeEncoding ==
    /\ cl.st \in {"returned", "exited"}
    /\ cl.input.kind = "structure"
    /\ \/ cl.net.kind \in {"ConnectionError", "Timeout"}
       \/ cl.net.kind = "response" /\ cl.net.status # 200
       \/ /\ cl.net.kind = "response" /\ cl.net.status = 200 /\ cl.net.body.json
          /\ \/ cl.net.body.forces.kind \in {"null", "absent"}
             \/ cl.net.body.energy.kind \in {"null", "absent"}

\* C28: after a calculation that failed before encoding calculate_via_host
\* has returned False and the output file is as it was: not created, not
\* opened, not written to.
C28_NoFileOnFailure ==
    FailedBeforeEncoding =>
        /\ cl.ret = "False"
        /\ drvFile = cl.before
        /\ drvOut.ops = <<>>

\* A 200 response with an energy and null forces: write_drv was called,
\* raised ValueError and left the file of the earlier run alone.
C28_Witness ==
    /\ FailedBeforeEncoding
    /\ cl.net.body.forces.kind = "null" /\ cl.net.body.energy.kind = "value"
    /\ cl.net.body.meta
    /\ drvOut # NotCalled /\ drvOut.err = "ValueError"
    /\ cl.before = OldFile /\ drvFile = OldFile

====
